---- MODULE Spec2Model ----
(***************************************************************************)
(* A model of raster/lyft/trainer.py: LyftTrainerModule.                   *)
(*                                                                         *)
(* Real numbers are fixed-point integers.  The hyperparameters             *)
(* pgd_eps_semantics, pgd_eps_vehicles and pgd_alpha are counted in units  *)
(* of 1/One (the integer One is the real 1.0).  torch.rand_like draws      *)
(* k / RandRes, so the product of a draw and an epsilon is a multiple of   *)
(* 1/(One * RandRes): pixel values and perturbations are counted in that   *)
(* unit (the integer Full is the real 1.0 of a tensor), and every product  *)
(* and sum of pgd_attack is exact.  A tensor [N, C, H, W] is modelled by   *)
(* one sample and one pixel: a function from the channels 1..NumChannels.  *)
(* The network (raster.models), neg_multi_log_likelihood and               *)
(* SaliencySupervision are collaborators outside this file: the values     *)
(* they produce (losses, gradient signs, saliency scores) are inputs of    *)
(* the actions, drawn from small sets.                                     *)
(***************************************************************************)
EXTENDS Integers, Sequences, FiniteSets, TLC

VARIABLES
    hparams,             \* self.hparams (save_hyperparameters)
    hparams_initial,     \* the deep copy save_hyperparameters keeps of the constructor's arguments
    lr,                  \* self.lr
    track_grad,          \* self.track_grad
    param_requires_grad, \* requires_grad of every parameter of self.parameters()
    training,            \* self.training: TRUE after train(), FALSE after eval()
    grad_mode,           \* torch's process-wide grad-enabled flag
    pc,                  \* position inside a stepwise pgd_attack call
    inputs,              \* the caller's input tensor (values)
    inputs_requires_grad,\* requires_grad of the caller's input tensor
    return_loss,         \* pgd_attack's return_loss argument
    delta,               \* pgd_attack's local delta
    iter,                \* pgd_attack's loop variable i (iterations completed)
    init_loss,           \* pgd_attack's local init_loss
    final_loss,          \* pgd_attack's local final_loss
    pgd_ret,             \* what the stepwise pgd_attack returned
    exc,                 \* the exception that left the last call, or "none"
    pre,                 \* the flags as they were when the last call started
    call,                \* the last call of forward: its arguments and what it did
    res,                 \* the diagnostics mapping the last forward returned
    logged,              \* the keys self.log received in the last step, in order
    ret,                 \* what the last step returned
    opt_ret              \* what the last configure_optimizers returned

vars == <<hparams, hparams_initial, lr, track_grad, param_requires_grad, training,
          grad_mode, pc, inputs, inputs_requires_grad, return_loss, delta, iter,
          init_loss, final_loss, pgd_ret, exc, pre, call, res, logged, ret, opt_ret>>

pgdLocals == <<pc, return_loss, delta, iter, init_loss, final_loss, pgd_ret>>
modLocals == <<call, res, logged, ret, opt_ret>>
config    == <<hparams, hparams_initial, lr, track_grad>>

(***************************************************************************)
(* Bounds of the model.                                                    *)
(***************************************************************************)
\* the fixed-point image of the real 1.0 for the epsilons and alpha
One == 4
\* largest pgd_iters drawn
MaxIters == 3
\* torch.rand_like draws k / RandRes, k in 0..RandRes-1
RandRes == 4

\* the last 3 channels are the semantic layers: the slices -3: and 0:-3
SemChannels == 3
\* the input tensor has one vehicle channel before the semantic layers
NumChannels == SemChannels + 1

\* the fixed-point image of the real 1.0 for pixel values and perturbations
Full == One * RandRes
\* a hyperparameter in units of 1/One, in the unit of the tensors
Fine(h) == RandRes * h

Channels == 1..NumChannels
Params   == {"weight", "bias"}
\* a local that was never assigned; an assigned local v is <<v>>
Unbound  == <<>>
NoValue  == "none"

Min2(a, b) == IF a < b THEN a ELSE b
Max2(a, b) == IF a > b THEN a ELSE b
Abs(a)     == IF a < 0 THEN -a ELSE a

\* torch.clamp(x, lo, hi) = min(max(x, lo), hi)
Clamp(x, lo, hi) == Min2(Max2(x, lo), hi)

\* truthiness of a Python number
Truthy(x) == x # 0

\* the channels of the slice [:, -3:] (0-based indices max(C-3, 0) .. C-1)
SemanticsSlice == {c \in Channels : c > NumChannels - SemChannels}
\* the channels of the slice [:, 0:-3] (0-based indices 0 .. C-4)
VehiclesSlice == {c \in Channels : c <= NumChannels - SemChannels}

\* (torch.rand_like(inputs) - 0.5) * 2 is (2 * k[c] - RandRes) / RandRes for the
\* draw k[c] / RandRes; then the semantics slice and the vehicles slice are
\* multiplied by their eps, which gives (2 * k[c] - RandRes) * eps units
RandDelta(hp, k) ==
    LET raw == [c \in Channels |-> 2 * k[c] - RandRes]
        sem == [c \in Channels |->
                  IF c \in SemanticsSlice THEN raw[c] * hp.pgd_eps_semantics ELSE raw[c]]
    IN  [c \in Channels |->
            IF c \in VehiclesSlice THEN sem[c] * hp.pgd_eps_vehicles ELSE sem[c]]

ZeroDelta == [c \in Channels |-> 0]

\* whether delta starts at a random point
RandomInit(hp) == hp.pgd_random_start \/ hp.pgd_mode = "negative_sample"

\* lines 60-69
InitDelta(hp, k) == IF RandomInit(hp) THEN RandDelta(hp, k) ELSE ZeroDelta

\* lines 84-88: clamp_ of the two slices, semantics first
ClampEps(hp, d) ==
    LET s == [c \in Channels |->
                 IF c \in SemanticsSlice
                 THEN Clamp(d[c], -Fine(hp.pgd_eps_semantics), Fine(hp.pgd_eps_semantics))
                 ELSE d[c]]
    IN  [c \in Channels |->
            IF c \in VehiclesSlice
            THEN Clamp(s[c], -Fine(hp.pgd_eps_vehicles), Fine(hp.pgd_eps_vehicles))
            ELSE s[c]]

\* StepDelta without the projection of lines 84-88
StepDeltaNoClamp(hp, d, sgn) ==
    [c \in Channels |-> d[c] + Fine(hp.pgd_alpha) * sgn[c]]

\* line 83 and lines 84-88: one gradient-sign step, then the projection
StepDelta(hp, d, sgn) ==
    ClampEps(hp, [c \in Channels |-> d[c] + Fine(hp.pgd_alpha) * sgn[c]])

\* (inputs.detach() + delta.detach()).clamp(0, 1.)
AdvInputs(x, d) == [c \in Channels |-> Clamp(x[c] + d[c], 0, Full)]

(***************************************************************************)
(* Hyperparameters.  pgd_reg_factor and saliency_factor are counted in     *)
(* units of 1/Scale.  A dict is the set of its <<key, value>> items; None  *)
(* is kept apart from the empty dict.                                      *)
(***************************************************************************)
\* the fixed-point image of the real 1.0 for factors and saliency scores
Scale == 10

NoneDict    == [none |-> TRUE, items |-> {}]
Dict(items) == [none |-> FALSE, items |-> items]
\* truthiness of an Optional[dict]
DictTruthy(d) == ~d.none /\ d.items # {}
\* d[key] = value on a dict object
DictSet(d, key, value) ==
    [d EXCEPT !.items = {p \in d.items : p[1] # key} \cup {<<key, value>>}]

\* the hyperparameters the modelled operations read, at the defaults of
\* __init__'s signature; lr, pgd_alpha and the two epsilons are grid values
BaseHParams ==
    [optimizer |-> "Adam", optimizer_dict |-> NoneDict, lr |-> 1,
     scheduler |-> "None", scheduler_dict |-> NoneDict,
     scheduler_interval |-> "epoch", scheduler_frequency |-> 1,
     scheduler_monitor |-> "None",
     saliency_factor |-> 0, pgd_mode |-> "loss", pgd_reg_factor |-> 0,
     pgd_iters |-> 0, pgd_alpha |-> 8, pgd_random_start |-> FALSE,
     pgd_eps_vehicles |-> 4, pgd_eps_semantics |-> 2, track_grad |-> FALSE]

PgdModes == {"loss", "negative_sample"}

(***************************************************************************)
(* pgd_attack, one step at a time.                                         *)
(***************************************************************************)
\* pgd_eps_semantics, pgd_eps_vehicles and pgd_alpha a direct call is tried
\* with: a step that overshoots both bounds, and a step inside the vehicle
\* bound with the semantic layers held at eps = 0
EpsAlphas == {<<2, 4, 8>>, <<0, 3, 2>>}

\* hyperparameters a direct call of pgd_attack is tried with
PgdHParams ==
    {[BaseHParams EXCEPT !.pgd_iters = K, !.pgd_mode = m, !.pgd_random_start = rs,
                      !.pgd_eps_semantics = ea[1], !.pgd_eps_vehicles = ea[2],
                      !.pgd_alpha = ea[3]] :
        K \in 0..MaxIters, m \in PgdModes, rs \in BOOLEAN, ea \in EpsAlphas}

\* input tensors: values inside and outside [0, 1]
InputTensors ==
    {[c \in Channels |-> IF c % 2 = 1 THEN a ELSE b] :
        a \in {0, Full}, b \in {Full \div 2, Full + RandRes}}

\* per-channel draws of torch.rand_like and per-channel gradient signs
RandDraws == [Channels -> 0..(RandRes - 1)]
GradSigns == [Channels -> {-1, 0, 1}]
LossVals  == {1, 2}

NoCall == [op |-> "none"]
None   == <<>>

\* the flags a call may leave changed
Flags(prg, tr, gm, xrg) ==
    [param_requires_grad |-> prg, training |-> tr, grad_mode |-> gm,
     inputs_requires_grad |-> xrg]

\* the calls of pgd_attack tried: every hyperparameter combination on a model
\* in train mode with trainable parameters and grad mode on, and every
\* combination of the flags with at most one iteration from a zero start
PgdCalls ==
    {[hp |-> hp, prg |-> [p \in Params |-> TRUE], tr |-> TRUE, gm |-> TRUE, x |-> x] :
        hp \in PgdHParams,
        x \in {t \in InputTensors : t[1] = 0 /\ t[2] > Full}}
    \cup
    {[hp |-> hp, prg |-> prg, tr |-> tr, gm |-> gm, x |-> x] :
        hp \in {h \in PgdHParams : h.pgd_iters <= 1 /\ ~RandomInit(h)},
        prg \in [Params -> BOOLEAN], tr \in BOOLEAN, gm \in BOOLEAN, x \in InputTensors}

\* pgd_attack is entered
InitPgd ==
    /\ \E c \in PgdCalls :
          /\ hparams = c.hp
          /\ param_requires_grad = c.prg
          /\ training = c.tr
          /\ grad_mode = c.gm
          /\ inputs = c.x
    /\ hparams_initial = hparams
    /\ lr = hparams.lr
    /\ track_grad = hparams.track_grad
    /\ inputs_requires_grad = FALSE
    /\ return_loss \in BOOLEAN
    /\ pc = "call"
    /\ delta = ZeroDelta
    /\ iter = 0
    /\ init_loss = Unbound
    /\ final_loss = Unbound
    /\ pgd_ret = NoValue
    /\ exc = "none"
    /\ pre = Flags(param_requires_grad, training, grad_mode, FALSE)
    /\ call = NoCall
    /\ res = <<>>
    /\ logged = <<>>
    /\ ret = None
    /\ opt_ret = [called |-> FALSE]

\* lines 59-69: targets = outputs; delta is initialised
PgdInitDelta ==
    /\ pc = "call"
    /\ \E k \in RandDraws : delta' = InitDelta(hparams, k)
    /\ pc' = "freeze"
    /\ UNCHANGED <<config, param_requires_grad, training, grad_mode, inputs,
                   inputs_requires_grad, return_loss, iter, init_loss, final_loss,
                   pgd_ret, exc, pre, modLocals>>

\* lines 71-76: every parameter is frozen, the model is put in eval mode
PgdFreeze ==
    /\ pc = "freeze"
    /\ param_requires_grad' = [p \in Params |-> FALSE]
    /\ training' = FALSE
    /\ pc' = "loop"
    /\ UNCHANGED <<config, grad_mode, inputs, inputs_requires_grad, return_loss, delta,
                   iter, init_loss, final_loss, pgd_ret, exc, pre, modLocals>>

\* loss.backward() needs a loss that requires grad: with the grad mode off the
\* forward pass records no graph and backward raises RuntimeError
BackwardRaises(gm) == ~gm

\* lines 77-89: one iteration of the loop
PgdIterate ==
    /\ pc = "loop"
    /\ iter < hparams.pgd_iters
    /\ \E loss \in IF iter = 0 /\ return_loss THEN LossVals ELSE {0},
          sgn \in IF BackwardRaises(grad_mode) THEN {ZeroDelta} ELSE GradSigns :
          /\ init_loss' = IF iter = 0 /\ return_loss THEN <<loss>> ELSE init_loss
          /\ IF BackwardRaises(grad_mode)
             THEN /\ exc' = "RuntimeError"
                  /\ pc' = "raised"
                  /\ UNCHANGED <<delta, iter>>
             ELSE /\ delta' = StepDelta(hparams, delta, sgn)
                  /\ iter' = iter + 1
                  /\ UNCHANGED <<exc, pc>>
    /\ UNCHANGED <<config, param_requires_grad, training, grad_mode, inputs,
                   inputs_requires_grad, return_loss, final_loss, pgd_ret, pre, modLocals>>

\* lines 90-92: the loop is over; final_loss is computed if asked for
PgdFinalLoss ==
    /\ pc = "loop"
    /\ iter = hparams.pgd_iters
    /\ \E loss \in LossVals :
          final_loss' = IF return_loss THEN <<loss>> ELSE final_loss
    /\ pc' = "unfreeze"
    /\ UNCHANGED <<config, param_requires_grad, training, grad_mode, inputs,
                   inputs_requires_grad, return_loss, delta, iter, init_loss, pgd_ret,
                   exc, pre, modLocals>>

\* lines 94-100: every parameter is made trainable, the model is put in train
\* mode; reading the unassigned local init_loss raises UnboundLocalError
PgdUnfreezeReturn ==
    /\ pc = "unfreeze"
    /\ param_requires_grad' = [p \in Params |-> TRUE]
    /\ training' = TRUE
    /\ IF return_loss /\ init_loss = Unbound
       THEN /\ exc' = "UnboundLocalError"
            /\ pc' = "raised"
            /\ UNCHANGED pgd_ret
       ELSE /\ pgd_ret' = IF return_loss
                          THEN [adv |-> AdvInputs(inputs, delta),
                                init_loss |-> init_loss[1], final_loss |-> final_loss[1]]
                          ELSE [adv |-> AdvInputs(inputs, delta)]
            /\ pc' = "returned"
            /\ UNCHANGED exc
    /\ UNCHANGED <<config, grad_mode, inputs, inputs_requires_grad, return_loss, delta,
                   iter, init_loss, final_loss, pre, modLocals>>

NextPgd == PgdInitDelta \/ PgdFreeze \/ PgdIterate \/ PgdFinalLoss \/ PgdUnfreezeReturn

SpecPgd == InitPgd /\ [][NextPgd]_vars

(***************************************************************************)
(* Properties of pgd_attack, checked under SpecPgd.                        *)
(***************************************************************************)
PgdLeft == pc \in {"returned", "raised"}

\* C1: after pgd_attack returns or raises, every parameter's requires_grad and
\* the model's train/eval mode equal their values before the call.
C1_FlagsRestoredAfterPgd ==
    PgdLeft => /\ param_requires_grad = pre.param_requires_grad
               /\ training = pre.training

\* C2: at every point of pgd_attack |delta| is at most pgd_eps_semantics on the
\* last 3 channels and at most pgd_eps_vehicles on the channels before them,
\* and the adversarial input returned lies in [0, 1].
C2_DeltaWithinEps ==
    /\ \A c \in Channels :
          IF c > NumChannels - SemChannels
          THEN Abs(delta[c]) <= RandRes * hparams.pgd_eps_semantics
          ELSE Abs(delta[c]) <= RandRes * hparams.pgd_eps_vehicles
    /\ pc = "returned" => \A c \in Channels : pgd_ret.adv[c] >= 0 /\ pgd_ret.adv[c] <= One * RandRes

\* C2's case: a call that ran every iteration from a random start returned, the
\* projection held a semantic and a vehicle channel at their bounds and the
\* final clamp cut a value above 1
C2_Witness ==
    /\ pc = "returned"
    /\ hparams.pgd_random_start
    /\ iter = MaxIters
    /\ hparams.pgd_eps_semantics > 0
    /\ \E c \in Channels : c > NumChannels - SemChannels
                           /\ Abs(delta[c]) = RandRes * hparams.pgd_eps_semantics
    /\ \E c \in Channels : c <= NumChannels - SemChannels
                           /\ Abs(delta[c]) = RandRes * hparams.pgd_eps_vehicles
    /\ \E c \in Channels : inputs[c] + delta[c] > One * RandRes /\ pgd_ret.adv[c] = One * RandRes

\* C3: pgd_attack with pgd_iters = 0 does not raise, returns the inputs clamped
\* to [0, 1], and with return_loss returns init_loss = final_loss.
C3_ZeroIterationsReturn ==
    (PgdLeft /\ hparams.pgd_iters = 0) =>
        /\ pc = "returned"
        /\ pgd_ret.adv = [c \in Channels |-> Clamp(inputs[c], 0, One * RandRes)]
        /\ return_loss => pgd_ret.init_loss = pgd_ret.final_loss

(***************************************************************************)
(* forward.  A batch holds NumSamples samples; a per-sample vector is a    *)
(* sequence of that length.  pgd_reg_factor, saliency_factor and the       *)
(* saliency scores are in units of 1/Scale, so a per-sample term of the    *)
(* loss is kept in units of 1/Scale^2; a mean over the batch is kept as    *)
(* the batch sum, that is, in units of 1/NumSamples.  The diagnostics      *)
(* mapping is the sequence of its <<key, value>> items in insertion order. *)
(***************************************************************************)
\* samples of a batch
NumSamples == 2

Samples == 1..NumSamples

RECURSIVE SumTo(_, _)
SumTo(v, n) == IF n = 0 THEN 0 ELSE v[n] + SumTo(v, n - 1)
\* tensor.mean() of a per-sample vector, times NumSamples
Mean(v) == SumTo(v, NumSamples)

\* a per-sample vector of whole numbers, in units of 1/Scale^2
Scaled(v) == [n \in Samples |-> Scale * Scale * v[n]]

Keys(d)     == {d[n][1] : n \in 1..Len(d)}
Get(d, key) == LET n == CHOOSE m \in 1..Len(d) : d[m][1] = key IN d[n][2]
\* d[key] = value on a dict that has no such key yet
Put(d, key, value) == Append(d, <<key, value>>)

\* line 106
PerfAttack(hp, attack) == Truthy(hp.pgd_iters) /\ attack
\* reg_pgd without the perf_attack conjunct
RegPgdAnyPhase(hp, attack) == Truthy(hp.pgd_reg_factor)

\* line 107
RegPgd(hp, attack) == PerfAttack(hp, attack) /\ Truthy(hp.pgd_reg_factor)
\* the replacement without the test of pgd_reg_factor
ReplaceInputsAlways(hp, attack) == Truthy(hp.pgd_iters) /\ attack

\* lines 111-112: inputs = adv_inputs
ReplaceInputs(hp, attack) == PerfAttack(hp, attack) /\ ~Truthy(hp.pgd_reg_factor)
\* line 115
InputsNeedGrad(hp, tg) == Truthy(hp.saliency_factor) \/ tg
\* the test of line 118 without grad_enabled
TakeGradsAnyMode(hp, tg, grad_enabled) == Truthy(hp.saliency_factor) \/ tg

\* line 118
TakeGrads(hp, tg, grad_enabled) == (Truthy(hp.saliency_factor) \/ tg) /\ grad_enabled
\* line 128
UseSaliency(hp, grad_enabled) == Truthy(hp.saliency_factor) /\ grad_enabled

\* lines 77-89 as a whole: the iterations i .. pgd_iters-1 with the gradient signs given
RECURSIVE PgdLoop(_, _, _, _)
PgdLoop(hp, d, signs, i) ==
    IF i >= hp.pgd_iters THEN d
    ELSE PgdLoop(hp, StepDelta(hp, d, signs[i + 1]), signs, i + 1)

\* pgd_attack as a whole (lines 58-100), called with the grad mode gm; e holds
\* the draws of rand_like, the gradient signs and the losses of the network
PgdAttack(hp, x, rl, gm, e) ==
    IF hp.pgd_iters > 0 /\ BackwardRaises(gm)
    THEN [exc |-> "RuntimeError",
          param_requires_grad |-> [p \in Params |-> FALSE], training |-> FALSE]
    ELSE IF rl /\ hp.pgd_iters <= 0
    THEN [exc |-> "UnboundLocalError",
          param_requires_grad |-> [p \in Params |-> TRUE], training |-> TRUE]
    ELSE [exc |-> "none",
          param_requires_grad |-> [p \in Params |-> TRUE], training |-> TRUE,
          adv |-> AdvInputs(x, PgdLoop(hp, InitDelta(hp, e.k), e.signs, 0)),
          init_loss |-> e.init_loss, final_loss |-> e.final_loss]

\* line 75 and line 125: the target is the model's own prediction
NegativeTarget(hp) == hp.pgd_mode = "negative_sample"

\* the loss with the regularization term left out of the saliency branch
LossTermsNoRegInSaliency(hp, attack, grad_enabled, e) ==
    IF Truthy(hp.saliency_factor) /\ grad_enabled
    THEN [n \in Samples |->
            (Scale - e.sal[n]) * hp.saliency_factor * e.nll[n] + Scale * Scale * e.nll[n]]
    ELSE IF ~(Truthy(hp.pgd_iters) /\ attack /\ Truthy(hp.pgd_reg_factor))
         THEN [n \in Samples |-> Scale * Scale * e.nll[n]]
         ELSE [n \in Samples |->
                 Scale * Scale * e.nll[n] + Scale * hp.pgd_reg_factor * e.adv_nll[n]]

\* lines 128-137: the per-sample terms of res['loss'], before .mean()
LossTerms(hp, attack, grad_enabled, e) ==
    IF UseSaliency(hp, grad_enabled)
    THEN IF ~RegPgd(hp, attack)
         THEN [n \in Samples |->
                 (Scale - e.sal[n]) * hp.saliency_factor * e.nll[n] + Scale * Scale * e.nll[n]]
         ELSE [n \in Samples |->
                 (Scale - e.sal[n]) * hp.saliency_factor * e.nll[n] + Scale * Scale * e.nll[n]
                 + Scale * hp.pgd_reg_factor * e.adv_nll[n]]
    ELSE IF ~RegPgd(hp, attack)
         THEN Scaled(e.nll)
         ELSE [n \in Samples |->
                 Scale * Scale * e.nll[n] + Scale * hp.pgd_reg_factor * e.adv_nll[n]]

\* lines 113-114
ResAttack(hp, attack, r0, atk) ==
    IF PerfAttack(hp, attack)
    THEN Put(Put(r0, "adv/init_loss", atk.init_loss), "adv/final_loss", atk.final_loss)
    ELSE r0

\* lines 118-122
ResGrads(hp, tg, grad_enabled, r1, e) ==
    IF TakeGrads(hp, tg, grad_enabled)
    THEN LET a == Put(r1, "grads/semantics", e.grads_semantics)
             b == Put(a, "grads/vehicles", e.grads_vehicles)
         IN  Put(b, "grads/total", Get(b, "grads/semantics") + Get(b, "grads/vehicles"))
    ELSE r1

\* lines 124-127
ResAdvNll(hp, attack, r2, e) ==
    IF RegPgd(hp, attack) THEN Put(r2, "adv/nll", Mean(Scaled(e.adv_nll))) ELSE r2

\* lines 128-137
ResLoss(hp, attack, grad_enabled, r3, e) ==
    IF UseSaliency(hp, grad_enabled)
    THEN Put(Put(r3, "loss", Mean(LossTerms(hp, attack, grad_enabled, e))),
             "saliency", Scale * Mean(e.sal))
    ELSE Put(r3, "loss", Mean(LossTerms(hp, attack, grad_enabled, e)))

\* lines 105-137 after a pgd_attack that returned atk (or was not called)
ForwardRes(hp, tg, grad_enabled, attack, atk, e) ==
    LET r1 == ResAttack(hp, attack, <<>>, atk)
        r2 == ResGrads(hp, tg, grad_enabled, r1, e)
        r3 == Put(r2, "nll", Mean(Scaled(e.nll)))
        r4 == ResAdvNll(hp, attack, r3, e)
    IN  ResLoss(hp, attack, grad_enabled, r4, e)

\* what the collaborators hand to one forward call: the per-sample nll on the
\* model's input, the per-sample nll on the adversarial inputs, the per-sample
\* saliency scores, the two gradient sums, and what pgd_attack draws and measures
NllVecs == {[n \in Samples |-> IF n % 2 = 1 THEN a ELSE 2 * a] : a \in {1, 2}}
AdvVecs == [a \in {0, 1} |-> [n \in Samples |-> IF n % 2 = 1 THEN 3 - a ELSE 1 + 3 * a]]
SalVecs == [a \in {0, 1} |-> [n \in Samples |-> IF n % 2 = 1 THEN 4 * a ELSE Scale]]
ZeroVec == [n \in Samples |-> 0]
PgdDraws ==
    [a \in {0, 1} |->
        [k |-> [c \in Channels |-> a * (RandRes - 1)],
         signs |-> [i \in 1..MaxIters |->
                       [c \in Channels |-> IF (c + i) % 2 = 0 THEN 1 ELSE 2 * a - 1]],
         init_loss |-> 1 + a, final_loss |-> 2]]
NoDraws == [k |-> [c \in Channels |-> 0], signs |-> <<>>, init_loss |-> 0, final_loss |-> 0]

\* the values a call does not read are left at zero
Externals(hp, tg, grad_enabled, attack) ==
    {[nll |-> nll,
      adv_nll |-> IF Truthy(hp.pgd_iters) /\ attack /\ Truthy(hp.pgd_reg_factor)
                  THEN AdvVecs[a] ELSE ZeroVec,
      sal |-> IF Truthy(hp.saliency_factor) /\ grad_enabled THEN SalVecs[a] ELSE ZeroVec,
      grads_semantics |-> IF (Truthy(hp.saliency_factor) \/ tg) /\ grad_enabled THEN 1 + a ELSE 0,
      grads_vehicles |-> IF (Truthy(hp.saliency_factor) \/ tg) /\ grad_enabled THEN 3 - a ELSE 0,
      k |-> IF Truthy(hp.pgd_iters) /\ attack THEN PgdDraws[a].k ELSE NoDraws.k,
      signs |-> IF Truthy(hp.pgd_iters) /\ attack THEN PgdDraws[a].signs ELSE NoDraws.signs,
      init_loss |-> IF Truthy(hp.pgd_iters) /\ attack THEN PgdDraws[a].init_loss ELSE 0,
      final_loss |-> IF Truthy(hp.pgd_iters) /\ attack THEN PgdDraws[a].final_loss ELSE 0] :
        nll \in NllVecs, a \in {0, 1}}

\* the batches a step is fed
Batches == {x \in InputTensors : x[1] = 0}

\* forward as a whole (lines 102-140, return_results=True) on the tensor x whose
\* requires_grad flag is xrg, with the model's flags prg and tr: the flags it
\* leaves, the mapping it returns and what it did on the way
ForwardOut(hp, tg, x, xrg, prg, tr, grad_enabled, attack, e) ==
    LET atk == IF PerfAttack(hp, attack)
               THEN PgdAttack(hp, x, TRUE, grad_enabled, e)
               ELSE [exc |-> "none", param_requires_grad |-> prg, training |-> tr]
    IN  IF atk.exc # "none"
        THEN [exc |-> atk.exc, returned |-> FALSE, res |-> <<>>,
              flags |-> Flags(atk.param_requires_grad, atk.training, grad_enabled, xrg),
              attacked |-> TRUE]
        ELSE [exc |-> "none", returned |-> TRUE,
              res |-> ForwardRes(hp, tg, grad_enabled, attack, atk, e),
              flags |-> Flags(atk.param_requires_grad, atk.training, grad_enabled,
                              IF ReplaceInputs(hp, attack) THEN xrg ELSE InputsNeedGrad(hp, tg)),
              attacked |-> PerfAttack(hp, attack),
              replaced |-> ReplaceInputs(hp, attack),
              negative_target |-> PerfAttack(hp, attack) /\ NegativeTarget(hp),
              reg_term |-> RegPgd(hp, attack),
              \* the tensor self.model(inputs) of line 116 was run on
              model_input |-> IF ReplaceInputs(hp, attack) THEN "adv_inputs" ELSE "inputs",
              model_x |-> IF ReplaceInputs(hp, attack) THEN atk.adv ELSE x,
              \* the tensor self.model(adv_inputs) of line 126 was run on
              adv_nll_input |-> IF RegPgd(hp, attack) THEN "adv_inputs" ELSE "none",
              adv_x |-> IF PerfAttack(hp, attack) THEN atk.adv ELSE x]

\* the state a forward call leaves
Leave(out, op, name, grad_enabled, attack, e) ==
    /\ call' = [op |-> op, name |-> name, grad_enabled |-> grad_enabled,
                attack |-> attack, e |-> e, out |-> out]
    /\ param_requires_grad' = call'.out.flags.param_requires_grad
    /\ training' = call'.out.flags.training
    /\ grad_mode' = call'.out.flags.grad_mode
    /\ inputs_requires_grad' = call'.out.flags.inputs_requires_grad
    /\ exc' = call'.out.exc
    /\ res' = call'.out.res

\* a direct call self(inputs, targets, ..., grad_enabled, attack) on the current tensor
Forward ==
    \E grad_enabled \in BOOLEAN, attack \in BOOLEAN :
      \E e \in Externals(hparams, track_grad, grad_enabled, attack) :
        /\ pre' = Flags(param_requires_grad, training, grad_mode, inputs_requires_grad)
        /\ Leave(ForwardOut(hparams, track_grad, inputs, inputs_requires_grad,
                            param_requires_grad, training, grad_enabled, attack, e),
                 "forward", "none", grad_enabled, attack, e)
        /\ logged' = <<>>
        /\ ret' = None
        /\ UNCHANGED <<config, inputs, pgdLocals, opt_ret>>

\* line 143
IsVal(name) == name = "val"
\* the attack phase left on in every state
StepAttackAlways(name) == TRUE

\* line 145: attack=not is_val
StepAttack(name) == ~IsVal(name)
\* lines 146-147: one self.log per item of the mapping, under f'{item}/{name}'
StepLog(result, name) ==
    [n \in 1..Len(result) |->
        [key |-> <<result[n][1], name>>, value |-> result[n][2],
         on_step |-> ~IsVal(name), on_epoch |-> IsVal(name)]]
\* lines 148-149
StepReturn(result, name) == IF ~IsVal(name) THEN <<Get(result, "loss")>> ELSE None

\* lines 142-149 on a fresh batch, whose image tensor does not require grad
Step(name) ==
    \E x \in Batches :
      \E e \in Externals(hparams, track_grad, TRUE, StepAttack(name)) :
        /\ inputs' = x
        /\ pre' = Flags(param_requires_grad, training, grad_mode, FALSE)
        /\ Leave(ForwardOut(hparams, track_grad, x, FALSE, param_requires_grad,
                            training, TRUE, StepAttack(name), e),
                 "step", name, TRUE, StepAttack(name), e)
        /\ logged' = IF call'.out.returned THEN StepLog(res', name) ELSE <<>>
        /\ ret' = IF call'.out.returned THEN StepReturn(res', name) ELSE None
        /\ UNCHANGED <<config, pgdLocals, opt_ret>>

\* lines 151-152
TrainingStep == Step("train")
\* lines 154-155
ValidationStep == Step("val")

(***************************************************************************)
(* configure_optimizers.  The string "None" stands for Python's None and   *)
(* "" for an empty string; both are falsy.                                 *)
(***************************************************************************)
StrTruthy(s) == s # "None" /\ s # ""

\* lines 158-162: the optimizer class and the dict object its kwargs are read
\* from; aliased says that the object is hparams.optimizer_dict itself
OptKwargs(hp, rate) ==
    IF StrTruthy(hp.optimizer)
    THEN [class |-> hp.optimizer,
          aliased |-> DictTruthy(hp.optimizer_dict),
          kwargs |-> DictSet(IF DictTruthy(hp.optimizer_dict) THEN hp.optimizer_dict ELSE Dict({}),
                             "lr", rate)]
    ELSE [class |-> "Adam", aliased |-> FALSE, kwargs |-> Dict({<<"lr", rate>>})]

\* hparams after lines 158-162: opt_dict['lr'] = self.lr writes into the dict
\* object opt_dict names
HParamsAfterOpt(hp, rate) ==
    IF OptKwargs(hp, rate).aliased
    THEN [hp EXCEPT !.optimizer_dict = OptKwargs(hp, rate).kwargs]
    ELSE hp

\* lines 166-174
SchedInstanceDict(hp, opt) ==
    [scheduler |-> [class |-> hp.scheduler,
                    kwargs |-> IF DictTruthy(hp.scheduler_dict) THEN hp.scheduler_dict ELSE Dict({}),
                    optimizer |-> opt],
     interval |-> hp.scheduler_interval, frequency |-> hp.scheduler_frequency,
     reduce_on_plateau |-> hp.scheduler = "ReduceLROnPlateau",
     monitor |-> IF StrTruthy(hp.scheduler_monitor) THEN <<hp.scheduler_monitor>> ELSE <<>>]

\* lines 157-175
ConfigureOptimizers ==
    LET o   == OptKwargs(hparams, lr)
        opt == [class |-> o.class, kwargs |-> o.kwargs]
    IN  /\ hparams' = HParamsAfterOpt(hparams, lr)
        /\ opt_ret' = IF hparams.scheduler = "None"
                      THEN [called |-> TRUE, optimizers |-> <<opt>>, schedulers |-> <<>>,
                            as_lists |-> FALSE]
                      ELSE [called |-> TRUE, optimizers |-> <<opt>>,
                            schedulers |-> <<SchedInstanceDict(hparams, opt)>>,
                            as_lists |-> TRUE]
        /\ UNCHANGED <<hparams_initial, lr, track_grad, param_requires_grad, training,
                       grad_mode, inputs, inputs_requires_grad, pgdLocals, exc, pre,
                       call, res, logged, ret>>

(***************************************************************************)
(* The module after construction, and its operations.                      *)
(***************************************************************************)
\* optimizer, optimizer_dict, scheduler, scheduler_dict, scheduler_monitor
OptConfigs ==
    {<<"Adam", NoneDict, "None", NoneDict, "None">>,
     <<"SGD", Dict({<<"momentum", 9>>}), "StepLR", Dict({<<"step_size", 5>>}), "None">>,
     <<"", Dict({<<"weight_decay", 2>>}), "None", NoneDict, "None">>,
     <<"Adam", Dict({}), "ReduceLROnPlateau", NoneDict, "loss/val">>,
     <<"Adam", Dict({<<"lr", 7>>}), "None", NoneDict, "None">>}

\* the values pgd_reg_factor and saliency_factor are drawn from: 0, and 0.5 or 0.2
RegFactors      == {0, Scale \div 2}
SaliencyFactors == {0, Scale \div 5}

\* every combination of the flags forward reads under the default optimizer,
\* and every optimizer configuration under two of them
ModuleHParams ==
    {[BaseHParams EXCEPT !.pgd_iters = K, !.pgd_mode = m, !.pgd_reg_factor = rf,
                      !.saliency_factor = sf, !.track_grad = tg] :
        K \in 0..MaxIters, m \in PgdModes, rf \in RegFactors, sf \in SaliencyFactors,
        tg \in BOOLEAN}
    \cup
    {[BaseHParams EXCEPT !.pgd_iters = K, !.pgd_reg_factor = K * (Scale \div 2),
                      !.optimizer = o[1], !.optimizer_dict = o[2], !.scheduler = o[3],
                      !.scheduler_dict = o[4], !.scheduler_monitor = o[5]] :
        K \in {0, 1}, o \in OptConfigs}

\* lines 45-56: the module after __init__, a built model in train mode with
\* trainable parameters, grad mode on, and a first batch at hand
Init ==
    /\ hparams \in ModuleHParams
    /\ hparams_initial = hparams
    /\ lr = hparams.lr
    /\ track_grad = hparams.track_grad
    /\ param_requires_grad = [p \in Params |-> TRUE]
    /\ training = TRUE
    /\ grad_mode = TRUE
    /\ inputs \in Batches
    /\ inputs_requires_grad = FALSE
    /\ return_loss = TRUE
    /\ pc = "idle"
    /\ delta = ZeroDelta
    /\ iter = 0
    /\ init_loss = Unbound
    /\ final_loss = Unbound
    /\ pgd_ret = NoValue
    /\ exc = "none"
    /\ pre = Flags(param_requires_grad, training, grad_mode, inputs_requires_grad)
    /\ call = NoCall
    /\ res = <<>>
    /\ logged = <<>>
    /\ ret = None
    /\ opt_ret = [called |-> FALSE]

Next == Forward \/ TrainingStep \/ ValidationStep \/ ConfigureOptimizers

Spec == Init /\ [][Next]_vars

(***************************************************************************)
(* Properties of forward, step and configure_optimizers, checked under     *)
(* Spec.                                                                   *)
(***************************************************************************)
Returned == call.op # "none" /\ call.out.returned

\* the flags of the last call
AttackDone == hparams.pgd_iters > 0 /\ call.attack
Regularize == AttackDone /\ hparams.pgd_reg_factor > 0

\* the four regimes, by what the last forward did
NoAdversarialTerm    == ~call.out.attacked
LossModeReplacement  == call.out.replaced /\ ~call.out.negative_target
NegativeSampleTarget == call.out.negative_target
RegularizationTerm   == call.out.reg_term
ActiveRegimes ==
    {r \in {"none", "loss_replacement", "negative_sample", "regularization"} :
        \/ r = "none" /\ NoAdversarialTerm
        \/ r = "loss_replacement" /\ LossModeReplacement
        \/ r = "negative_sample" /\ NegativeSampleTarget
        \/ r = "regularization" /\ RegularizationTerm}

\* C4 as stated: in every forward step exactly one of the four regimes is active.
C4_ExactlyOneRegime == Returned => Cardinality(ActiveRegimes) = 1

\* C4 as amended: the active regimes are a function of pgd_iters, pgd_mode,
\* pgd_reg_factor and the attack flag; exactly one is active, except that the
\* negative-sample target and the regularization term are both active when the
\* attack is performed with pgd_mode = negative_sample and pgd_reg_factor > 0.
C4_RegimesByFlags ==
    Returned =>
        /\ NoAdversarialTerm <=> ~AttackDone
        /\ LossModeReplacement <=>
              AttackDone /\ hparams.pgd_reg_factor = 0 /\ hparams.pgd_mode # "negative_sample"
        /\ NegativeSampleTarget <=> AttackDone /\ hparams.pgd_mode = "negative_sample"
        /\ RegularizationTerm <=> AttackDone /\ hparams.pgd_reg_factor > 0
        /\ IF Regularize /\ hparams.pgd_mode = "negative_sample"
           THEN ActiveRegimes = {"negative_sample", "regularization"}
           ELSE Cardinality(ActiveRegimes) = 1

\* C4's case: a forward that regularizes against the model's own prediction
C4_Witness ==
    /\ Returned
    /\ call.op = "forward"
    /\ Regularize
    /\ hparams.pgd_mode = "negative_sample"
    /\ "adv/nll" \in Keys(res)

\* C5: the key set of the mapping forward returns is the one the flags give.
C5_DiagnosticKeys ==
    Returned =>
        /\ Keys(res) =
              {"nll", "loss"}
              \cup (IF AttackDone THEN {"adv/init_loss", "adv/final_loss"} ELSE {})
              \cup (IF Regularize THEN {"adv/nll"} ELSE {})
              \cup (IF (hparams.saliency_factor > 0 \/ track_grad) /\ call.grad_enabled
                    THEN {"grads/semantics", "grads/vehicles", "grads/total"} ELSE {})
              \cup (IF hparams.saliency_factor > 0 /\ call.grad_enabled
                    THEN {"saliency"} ELSE {})
        /\ Cardinality(Keys(res)) = Len(res)

\* C5's case: a mapping with every key
C5_Witness ==
    /\ Returned
    /\ Len(res) = 9
    /\ Regularize
    /\ hparams.saliency_factor > 0

\* C6: 'loss' is mean[(1 - saliency) * saliency_factor * nll + nll] when saliency
\* is enabled and gradients are permitted and mean[nll] otherwise, plus
\* pgd_reg_factor * adv/nll iff the adversarial result is used as a regularizer.
\* Both sides are multiplied by Scale, the denominator of pgd_reg_factor.
C6_LossComposition ==
    Returned =>
        LET base == IF hparams.saliency_factor > 0 /\ call.grad_enabled
                    THEN SumTo([n \in Samples |->
                                  (Scale - call.e.sal[n]) * hparams.saliency_factor * call.e.nll[n]
                                  + Scale * Scale * call.e.nll[n]], NumSamples)
                    ELSE Get(res, "nll")
            reg  == IF Regularize THEN hparams.pgd_reg_factor * Get(res, "adv/nll") ELSE 0
        IN  /\ Scale * Get(res, "loss") = Scale * base + reg
            /\ Get(res, "nll") = Scale * Scale * SumTo(call.e.nll, NumSamples)
            /\ (hparams.pgd_iters = 0 /\ hparams.saliency_factor = 0) =>
                   Get(res, "loss") = Get(res, "nll")
            \* pgd_iters = 3 and pgd_reg_factor = 0.5: loss = nll + 0.5 * adv/nll
            /\ (hparams.pgd_iters = 3 /\ 2 * hparams.pgd_reg_factor = Scale /\ call.attack
                /\ hparams.saliency_factor = 0) =>
                   2 * Get(res, "loss") = 2 * Get(res, "nll") + Get(res, "adv/nll")

\* C6's case: saliency and the regularizer both add to the loss
C6_Witness ==
    /\ Returned
    /\ Regularize
    /\ hparams.saliency_factor > 0 /\ call.grad_enabled
    /\ hparams.pgd_iters = MaxIters
    /\ \E n \in Samples : call.e.sal[n] < Scale
    /\ Get(res, "adv/nll") > 0
    /\ Get(res, "loss") > Get(res, "nll")

\* C7: a train batch calls forward with the attack phase on and returns the
\* 'loss' entry; a val batch calls it with the attack phase off, never runs
\* pgd_attack and returns nothing; every entry is logged exactly once, under
\* '{name}/{state}'.
C7_StepProtocol ==
    call.op = "step" =>
        /\ call.out.returned
        /\ call.name = "train" => call.attack /\ ret = <<Get(res, "loss")>>
        /\ call.name = "val" => ~call.attack /\ ~call.out.attacked /\ ret = None
        /\ Len(logged) = Len(res)
        /\ \A item \in Keys(res) :
              Cardinality({n \in 1..Len(logged) : logged[n].key = <<item, call.name>>}) = 1
        /\ \A n \in 1..Len(logged) :
              /\ logged[n].key[2] = call.name
              /\ logged[n].key[1] \in Keys(res)
              /\ logged[n].value = Get(res, logged[n].key[1])

\* C7's case: a val batch of a module configured to attack
C7_Witness ==
    /\ call.op = "step"
    /\ call.name = "val"
    /\ hparams.pgd_iters > 0
    /\ hparams.saliency_factor > 0
    /\ Len(logged) = 6
    /\ ret = None

\* C8: every hyperparameter, the contents of optimizer_dict included, equals
\* its value at construction.
C8_HParamsReadOnly == hparams = hparams_initial

\* C9: forward replaces the inputs by the adversarial inputs iff an attack is
\* performed and pgd_reg_factor is 0; then 'nll' and 'loss' come from the model
\* run on the adversarial inputs, and otherwise from the model run on the
\* original inputs, the adversarial inputs serving 'adv/nll' alone.
C9_AdversarialReplacement ==
    Returned =>
        /\ call.out.replaced <=> (AttackDone /\ hparams.pgd_reg_factor = 0)
        /\ (AttackDone /\ hparams.pgd_reg_factor = 0) =>
              /\ call.out.model_input = "adv_inputs"
              /\ call.out.model_x = call.out.adv_x
        /\ ~(AttackDone /\ hparams.pgd_reg_factor = 0) =>
              /\ call.out.model_input = "inputs"
              /\ call.out.model_x = inputs
        /\ Regularize <=> call.out.adv_nll_input = "adv_inputs"
        /\ Regularize <=> "adv/nll" \in Keys(res)

\* C9's case: the model was run on an adversarial tensor that differs from the
\* original one
C9_Witness ==
    /\ Returned
    /\ AttackDone /\ hparams.pgd_reg_factor = 0
    /\ call.out.model_x # inputs
    /\ call.out.model_x = call.out.adv_x

\* C10: after forward returns, torch's grad-enabled flag and the requires_grad
\* flag of the caller's input tensor equal their values before the call.
C10_ForwardFlagsScoped ==
    (call.op = "forward" /\ call.out.returned) =>
        /\ grad_mode = pre.grad_mode
        /\ inputs_requires_grad = pre.inputs_requires_grad

====
